---- MODULE Spec2Model ----
(***************************************************************************)
(* A model of AutoRBI's user CRUD layer (user_crud.py), the admin          *)
(* analytics service (admin_analytics_service.py), the pagination of the   *)
(* user-management list view (user_management.py), the Excel validator     *)
(* (excel_validator.py), the validation rules (validation_rules.py) and    *)
(* the menus' analytics and clock (admin_menu.py, main_menu.py).           *)
(*                                                                         *)
(* Python values are tagged records, text is a sequence of one-character   *)
(* strings, so that str(), strip() and lower() are computed and not        *)
(* assumed.                                                                *)
(***************************************************************************)
EXTENDS Integers, Sequences, FiniteSets, TLC

VARIABLES
    users,        \* the User rows as the ORM session holds them, by user_id
    stored,       \* the User rows as last committed to the database
    last,         \* the last user_crud call: its arguments and what it returned
    dom,          \* the values the callers of user_crud pass in this run
    nArg,         \* the argument handed to normalize_user_status, with the word
                  \* it was spelled from
    nOut,         \* what normalize_user_status returned for nArg
    nOut2,        \* what normalize_user_status returned for nOut
    aReq,         \* the last admin analytics call: operation and arguments
    aCalls,       \* the steps of that call that can raise, after the permission
                  \* check, in order: CRUD calls and attribute reads, with outcomes
    aResp,        \* the dictionary that call returned
    aExc,         \* the exception that call let through to its caller
    view,         \* the UserManagementView object: attributes and widgets
    vOps,         \* how many status toggles, edits and failed listings the view saw
    fnArgs,       \* the function called on its own, and its arguments
    fnOut,        \* what that function returned
    menu,         \* the MainMenuView object: its datetime label and how often
                  \* it was shown
    tk            \* the application window: live label widgets, the callbacks
                  \* queued with after(), and the time

crudVars == <<users, stored, last, dom>>
normVars == <<nArg, nOut, nOut2>>
svcVars == <<aReq, aCalls, aResp, aExc>>
viewVars == <<view, vOps>>
fnVars == <<fnArgs, fnOut>>
menuVars == <<menu, tk>>
nonCrudVars == <<normVars, svcVars, viewVars, fnVars, menuVars>>
nonNormVars == <<crudVars, svcVars, viewVars, fnVars, menuVars>>
nonSvcVars == <<crudVars, normVars, viewVars, fnVars, menuVars>>
nonViewVars == <<crudVars, normVars, svcVars, fnVars, menuVars>>
nonFnVars == <<crudVars, normVars, svcVars, viewVars, menuVars>>
nonMenuVars == <<crudVars, normVars, svcVars, viewVars, fnVars>>
vars == <<users, stored, last, dom, nArg, nOut, nOut2, aReq, aCalls, aResp, aExc, view, vOps,
          fnArgs, fnOut, menu, tk>>

(***************************************************************************)
(* Python values                                                           *)
(***************************************************************************)
None == [t |-> "None"]
PyStr(s) == [t |-> "str", s |-> s]
PyBool(b) == [t |-> "bool", b |-> b]
PyInt(n) == [t |-> "int", n |-> n]

UpperChars == <<"A","B","C","D","E","F","G","H","I","J","K","L","M",
                "N","O","P","Q","R","S","T","U","V","W","X","Y","Z">>
LowerChars == <<"a","b","c","d","e","f","g","h","i","j","k","l","m",
                "n","o","p","q","r","s","t","u","v","w","x","y","z">>
DigitChars == <<"0","1","2","3","4","5","6","7","8","9">>
Whitespace == {" ", "\t", "\n", "\r", "\f"}

\* str.lower() on one character
LowerChar(c) ==
    IF \E i \in 1..26 : UpperChars[i] = c
    THEN LowerChars[CHOOSE i \in 1..26 : UpperChars[i] = c]
    ELSE c

\* str.upper() on one character
UpperChar(c) ==
    IF \E i \in 1..26 : LowerChars[i] = c
    THEN UpperChars[CHOOSE i \in 1..26 : LowerChars[i] = c]
    ELSE c

\* str.lower()
Lower(s) == [i \in 1..Len(s) |-> LowerChar(s[i])]

\* str.upper()
Upper(s) == [i \in 1..Len(s) |-> UpperChar(s[i])]

\* a strip that trims the left side only
Strip_left_only(s) ==
    LET keep == {i \in 1..Len(s) : s[i] \notin Whitespace}
    IN  IF keep = {} THEN <<>>
        ELSE SubSeq(s, CHOOSE i \in keep : \A j \in keep : i <= j, Len(s))

\* str.strip(): the text between the first and the last non-whitespace character
Strip(s) ==
    LET keep == {i \in 1..Len(s) : s[i] \notin Whitespace}
    IN  IF keep = {} THEN <<>>
        ELSE LET lo == CHOOSE i \in keep : \A j \in keep : i <= j
                 hi == CHOOSE i \in keep : \A j \in keep : j <= i
             IN  SubSeq(s, lo, hi)

\* the decimal digits of a natural number
RECURSIVE Digits(_)
Digits(n) == IF n < 10 THEN <<DigitChars[n + 1]>>
             ELSE Digits(n \div 10) \o <<DigitChars[(n % 10) + 1]>>

\* str(value) for the values a status can be given as
Str(v) ==
    CASE v.t = "str" -> v.s
      [] v.t = "bool" -> IF v.b THEN <<"T","r","u","e">> ELSE <<"F","a","l","s","e">>
      [] v.t = "int" -> IF v.n < 0 THEN <<"-">> \o Digits(0 - v.n) ELSE Digits(v.n)
      [] v.t = "None" -> <<"N","o","n","e">>

(***************************************************************************)
(* user_crud.py: normalize_user_status                                     *)
(***************************************************************************)
ActiveWords == { <<"a","c","t","i","v","e">>, <<"a">>, <<"e","n","a","b","l","e","d">>,
                 <<"y","e","s">>, <<"t","r","u","e">>, <<"1">> }
InactiveWords == { <<"i","n","a","c","t","i","v","e">>, <<"i">>,
                   <<"d","i","s","a","b","l","e","d">>, <<"n","o">>,
                   <<"f","a","l","s","e">>, <<"0">> }

Active == PyStr(<<"A","c","t","i","v","e">>)
Inactive == PyStr(<<"I","n","a","c","t","i","v","e">>)

\* a normalizer that lets an unrecognised string through as it came
normalize_user_status_lax(value) ==
    IF value = None THEN None
    ELSE LET v == Lower(Strip(Str(value)))
         IN  IF v \in ActiveWords THEN Active
             ELSE IF v \in InactiveWords THEN Inactive
             ELSE value

normalize_user_status(value) ==
    IF value = None THEN None
    ELSE LET v == Lower(Strip(Str(value)))
         IN  IF v \in ActiveWords THEN Active
             ELSE IF v \in InactiveWords THEN Inactive
             ELSE None

(***************************************************************************)
(* user_crud.py: password hashing (passlib CryptContext, argon2)           *)
(***************************************************************************)
MaxSalt == 2
Salts == 1..MaxSalt

\* the argon2 digest of a password under a salt, as an ideal key derivation:
\* two digests agree only when salt and password agree
Argon2(salt, password) == [kdf |-> "argon2id", salt |-> salt, input |-> password]

\* pwd_context.hash with the salt passlib drew
hash_password(password, salt) ==
    [scheme |-> "argon2", salt |-> salt, digest |-> Argon2(salt, password)]

\* a verify that compares under a fixed salt instead of the stored one
verify_password_fixed_salt(plain_pw, hashed_pw) ==
    Argon2(1, plain_pw) = hashed_pw.digest

\* pwd_context.verify: hash the candidate under the stored salt and compare
verify_password(plain_pw, hashed_pw) ==
    Argon2(hashed_pw.salt, plain_pw) = hashed_pw.digest

(***************************************************************************)
(* user_crud.py: the User rows and the calls on them                       *)
(***************************************************************************)
UserIds == {1, 2}
NoUser == 0
Absent == [t |-> "absent"]

Alice == PyStr(<<"a","l","i","c","e">>)
Bob == PyStr(<<"b","o","b">>)
Usernames == {Alice, Bob}
FullNames == {PyStr(<<"A"," ","L","e","e">>), PyStr(<<"B"," ","R","a","y">>)}
Admin == PyStr(<<"A","d","m","i","n">>)
Engineer == PyStr(<<"E","n","g","i","n","e","e","r">>)
Roles == {Admin, Engineer}
Pw1 == PyStr(<<"p","w","1">>)
Pw2 == PyStr(<<"p","w","2">>)
EmptyStr == PyStr(<<>>)
Passwords == {Pw1, Pw2}
\* the status values admin_update_user is called with
StatusArgs == { PyStr(<<" ","E","N","A","B","L","E","D"," ">>), PyStr(<<"n","o">>),
                PyStr(<<"b","o","g","u","s">>) }
UpdateKeys == {"full_name", "username", "role", "status", "password"}
\* the most keys an updates dict holds
MaxKeys == 2

\* A run draws the arguments of its calls from one slice of the input space.
\* Each slice varies some fields against the status and fixes the others;
\* keys are the keys the updates dicts of the run hold.
InputSlices ==
    { [usernames |-> Usernames, full_names |-> FullNames, roles |-> {Engineer},
       passwords |-> {Pw1}, salts |-> {1},
       keys |-> {"username", "full_name", "status"}],
      [usernames |-> {Alice}, full_names |-> FullNames, roles |-> Roles,
       passwords |-> {Pw1}, salts |-> {1},
       keys |-> {"full_name", "role", "status"}],
      [usernames |-> Usernames, full_names |-> {PyStr(<<"A"," ","L","e","e">>)},
       roles |-> {Engineer}, passwords |-> Passwords, salts |-> {1},
       keys |-> {"username", "password", "status"}],
      [usernames |-> {Alice}, full_names |-> {PyStr(<<"A"," ","L","e","e">>)},
       roles |-> {Engineer}, passwords |-> Passwords, salts |-> Salts,
       keys |-> {"password", "status"}] }

\* the values a run passes under a key of updates, Absent for a key left out
UpdateValues(key, values) == IF key \in dom.keys THEN values \cup {Absent} ELSE {Absent}

\* Python truthiness of an optional string argument
Truthy(v) == v # None /\ v # EmptyStr

NoCall == [op |-> "none", uid |-> NoUser, username |-> None, password |-> None,
           status |-> Absent, ret |-> NoUser, msg |-> "", raised |-> FALSE,
           commit |-> FALSE]

\* db.commit() writes every row as the session holds it; a call that returns
\* or raises without it leaves the database as it was
SessionCommit == stored' = IF last'.commit THEN users' ELSE stored

\* get_user_by_id: the row with that primary key, or None
get_user_by_id(db, user_id) == IF user_id \in DOMAIN db THEN user_id ELSE NoUser

\* get_user_by_username: the rows .first() may return for that username
\* (the query has no ORDER BY); empty when .first() returns None
get_user_by_username(db, username) == {u \in DOMAIN db : db[u].username = username}

\* a create_user that leaves the new account inactive
create_user_inactive(entry, username, full_name, password, role, salt) ==
    /\ Len(users) < Cardinality(UserIds)
    /\ users' = Append(users, [username |-> username, full_name |-> full_name,
                               password |-> hash_password(password, salt),
                               role |-> role, status |-> Inactive])
    /\ last' = [NoCall EXCEPT !.op = entry, !.uid = Len(users'),
                              !.password = password, !.ret = Len(users'),
                              !.commit = TRUE]
    /\ UNCHANGED dom

\* create_user: hash, add the row under the next primary key, commit
\* (entry names the function the caller entered by)
create_user(entry, username, full_name, password, role, salt) ==
    /\ Len(users) < Cardinality(UserIds)
    /\ users' = Append(users, [username |-> username, full_name |-> full_name,
                               password |-> hash_password(password, salt),
                               role |-> role, status |-> Active])
    /\ last' = [NoCall EXCEPT !.op = entry, !.uid = Len(users'),
                              !.password = password, !.ret = Len(users'),
                              !.commit = TRUE]
    /\ UNCHANGED dom

CreateUser ==
    \E username \in dom.usernames, full_name \in dom.full_names,
       password \in dom.passwords, role \in dom.roles, salt \in dom.salts :
        /\ create_user("create_user", username, full_name, password, role, salt)
        /\ SessionCommit
        /\ UNCHANGED nonCrudVars

\* register_engineer: create_user with the role fixed
RegisterEngineer ==
    \E username \in dom.usernames, full_name \in dom.full_names,
       password \in dom.passwords, salt \in dom.salts :
        /\ create_user("register_engineer", username, full_name, password, Engineer, salt)
        /\ SessionCommit
        /\ UNCHANGED nonCrudVars

\* the field assignments of admin_update_user up to (not including) the status
AdminAssignFields(user, updates) ==
    [user EXCEPT
        !.full_name = IF updates.full_name # Absent THEN updates.full_name ELSE @,
        !.username = IF updates.username # Absent THEN updates.username ELSE @,
        !.role = IF updates.role # Absent THEN updates.role ELSE @]

\* admin_update_user; a key missing from updates has the value Absent
admin_update_user(user_id, updates, salt) ==
    LET user == get_user_by_id(users, user_id)
        call == [NoCall EXCEPT !.op = "admin_update_user", !.uid = user_id,
                               !.status = updates.status]
    IN  IF user = NoUser
        THEN /\ last' = call
             /\ UNCHANGED users
        ELSE LET u1 == AdminAssignFields(users[user], updates)
                 normalized == normalize_user_status(updates.status)
             IN  IF updates.status # Absent /\ normalized = None
                 THEN \* raise ValueError: no commit, and the assignments made so far
                      \* stay on the session's object, which later calls read
                      /\ users' = [users EXCEPT ![user] = u1]
                      /\ last' = [call EXCEPT !.raised = TRUE, !.msg = "ValueError"]
                 ELSE LET u2 == IF updates.status # Absent
                                THEN [u1 EXCEPT !.status = normalized] ELSE u1
                          u3 == IF updates.password # Absent
                                THEN [u2 EXCEPT !.password =
                                          hash_password(updates.password, salt)]
                                ELSE u2
                      IN  /\ users' = [users EXCEPT ![user] = u3]
                          /\ last' = [call EXCEPT !.ret = user, !.commit = TRUE,
                                                  !.password =
                                                      IF updates.password # Absent
                                                      THEN updates.password ELSE None]

AdminUpdateUser ==
    \E user_id \in UserIds, salt \in dom.salts,
       full_name \in UpdateValues("full_name", dom.full_names),
       username \in UpdateValues("username", dom.usernames),
       role \in UpdateValues("role", dom.roles),
       status \in UpdateValues("status", StatusArgs),
       password \in UpdateValues("password", dom.passwords) :
        LET updates == [full_name |-> full_name, username |-> username, role |-> role,
                        status |-> status, password |-> password]
        IN  /\ Cardinality({k \in UpdateKeys : updates[k] # Absent}) <= MaxKeys
            \* the salt is drawn only when a password is hashed
            /\ (password = Absent \/ (status # Absent /\ normalize_user_status(status) = None))
                   => salt = 1
            /\ admin_update_user(user_id, updates, salt)
            /\ SessionCommit
            /\ UNCHANGED <<dom, nonCrudVars>>

\* engineer_update_self
engineer_update_self(user_id, full_name, password, salt) ==
    LET user == get_user_by_id(users, user_id)
        call == [NoCall EXCEPT !.op = "engineer_update_self", !.uid = user_id]
    IN  IF user = NoUser
        THEN /\ last' = call
             /\ UNCHANGED users
        ELSE LET u1 == IF Truthy(full_name)
                       THEN [users[user] EXCEPT !.full_name = full_name]
                       ELSE users[user]
                 u2 == IF Truthy(password)
                       THEN [u1 EXCEPT !.password = hash_password(password, salt)]
                       ELSE u1
             IN  /\ users' = [users EXCEPT ![user] = u2]
                 /\ last' = [call EXCEPT !.ret = user, !.commit = TRUE,
                                         !.password = IF Truthy(password)
                                                      THEN password ELSE None]

EngineerUpdateSelf ==
    \E user_id \in UserIds, salt \in dom.salts,
       full_name \in dom.full_names \cup {None, EmptyStr},
       password \in dom.passwords \cup {None, EmptyStr} :
        \* the salt is drawn only when a password is hashed
        /\ ~Truthy(password) => salt = 1
        /\ engineer_update_self(user_id, full_name, password, salt)
        /\ SessionCommit
        /\ UNCHANGED <<dom, nonCrudVars>>

\* a deactivate_user that also blanks the password of the row
deactivate_user_wipe(user_id) ==
    LET user == get_user_by_id(users, user_id)
        call == [NoCall EXCEPT !.op = "deactivate_user", !.uid = user_id]
    IN  IF user = NoUser
        THEN /\ last' = call
             /\ UNCHANGED users
        ELSE /\ users' = [users EXCEPT ![user].status = Inactive,
                                       ![user].password = hash_password(EmptyStr, 1)]
             /\ last' = [call EXCEPT !.ret = user, !.commit = TRUE]

\* deactivate_user
deactivate_user(user_id) ==
    LET user == get_user_by_id(users, user_id)
        call == [NoCall EXCEPT !.op = "deactivate_user", !.uid = user_id]
    IN  IF user = NoUser
        THEN /\ last' = call
             /\ UNCHANGED users
        ELSE /\ users' = [users EXCEPT ![user].status = Inactive]
             /\ last' = [call EXCEPT !.ret = user, !.commit = TRUE]

DeactivateUser ==
    \E user_id \in UserIds :
        /\ deactivate_user(user_id)
        /\ SessionCommit
        /\ UNCHANGED <<dom, nonCrudVars>>

\* a login_user that checks the password before the status
login_user_password_first(user, username, password) ==
    LET call == [NoCall EXCEPT !.op = "login_user", !.uid = user,
                               !.username = username, !.password = password]
    IN  /\ last' = IF user = NoUser
                   THEN [call EXCEPT !.msg = "User not found"]
                   ELSE IF ~verify_password(password, users[user].password)
                   THEN [call EXCEPT !.msg = "Invalid password"]
                   ELSE IF users[user].status # Active
                   THEN [call EXCEPT !.msg = "Account inactive"]
                   ELSE [call EXCEPT !.ret = user, !.msg = "Login successful"]
        /\ UNCHANGED users

\* login_user, having read `user` (a row, or NoUser) by get_user_by_username
login_user(user, username, password) ==
    LET call == [NoCall EXCEPT !.op = "login_user", !.uid = user,
                               !.username = username, !.password = password]
    IN  /\ last' = IF user = NoUser
                   THEN [call EXCEPT !.msg = "User not found"]
                   ELSE IF users[user].status # Active
                   THEN [call EXCEPT !.msg = "Account inactive"]
                   ELSE IF ~verify_password(password, users[user].password)
                   THEN [call EXCEPT !.msg = "Invalid password"]
                   ELSE [call EXCEPT !.ret = user, !.msg = "Login successful"]
        /\ UNCHANGED users

LoginUser ==
    \E username \in Usernames, password \in dom.passwords \cup {EmptyStr} :
        LET found == get_user_by_username(users, username)
        IN  \E user \in (IF found = {} THEN {NoUser} ELSE found) :
                /\ login_user(user, username, password)
                /\ SessionCommit
                /\ UNCHANGED <<dom, nonCrudVars>>

Unset == [t |-> "unset"]
NoExc == [kind |-> "none", text |-> ""]
NoReq == [op |-> "none"]
NoResp == [returned |-> FALSE]

\* no admin analytics call has been made
SvcIdle ==
    /\ aReq = NoReq
    /\ aCalls = <<>>
    /\ aResp = NoResp
    /\ aExc = NoExc

\* UserManagementView.per_page
per_page == 25
\* an attribute that show() has not created yet
NoWidget == [t |-> "nowidget"]

\* UserManagementView.__init__: the view as constructed, before show()
UserManagementView ==
    [ user_rows |-> <<>>, table_body |-> None,
      current_page |-> 1, per_page |-> per_page, total_pages |-> 1, total_users |-> 0,
      current_status_filter |-> None, current_role_filter |-> None,
      current_search |-> EmptyStr,
      row_numbers |-> <<>>,
      pagination_info |-> NoWidget, page_label |-> NoWidget,
      prev_btn |-> NoWidget, next_btn |-> NoWidget ]

\* no view in use
ViewIdle ==
    /\ view = UserManagementView
    /\ vOps = 0

\* what a function called on its own returned
Returned(value) == [t |-> "returned", value |-> value]

\* no function called on its own
FnIdle ==
    /\ fnArgs = [fn |-> "none"]
    /\ fnOut = Unset

\* self._datetime_label is None
NoLabel == 0
\* the text of a label that was never configured
NoText == -1

\* the main menu constructed and never shown, no callback queued
MenuIdle ==
    /\ menu = [datetime_label |-> NoLabel, text |-> NoText, shows |-> 0]
    /\ tk = [widgets |-> {}, timers |-> <<>>, now |-> 0]

Init ==
    /\ users = <<>>
    /\ stored = users
    /\ last = NoCall
    /\ dom \in InputSlices
    /\ nArg = [value |-> None, core |-> <<>>]
    /\ nOut = Unset
    /\ nOut2 = Unset
    /\ SvcIdle
    /\ ViewIdle
    /\ FnIdle
    /\ MenuIdle

Next ==
    \/ CreateUser
    \/ RegisterEngineer
    \/ AdminUpdateUser
    \/ EngineerUpdateSelf
    \/ DeactivateUser
    \/ LoginUser

Spec == Init /\ [][Next]_vars
(***************************************************************************)
(* normalize_user_status applied to spellings of status words              *)
(***************************************************************************)
\* the longest run of whitespace put on either side of a word
MaxPad == 1
PadChars == {" ", "\t", "\n"}
Pads == UNION {[1..n -> PadChars] : n \in 0..MaxPad}
Casings == {"lower", "upper", "capital", "tail"}

\* words that are no spelling of a status
OtherWords == { <<>>, <<"a","c">>, <<"a","c","t","i","v">>, <<"a","c","t","i","v","e","s">>,
                <<"a","c","t","i","v","e"," ","x">>, <<"i","n"," ","a","c","t","i","v","e">>,
                <<"a"," ","i">>, <<"o","n">>, <<"o","f","f">>, <<"y">>, <<"n">>, <<"t">>,
                <<"f">>, <<"2">>, <<"1","0">>, <<"0","1">>, <<"1",".","0">>,
                <<"n","o","n","e">>, <<"n","u","l","l">>, <<"e","n","a","b","l","e">> }
StatusWords == ActiveWords \cup InactiveWords \cup OtherWords

\* a lower-case word respelled in one of the casings
ApplyCase(w, casing) ==
    [i \in 1..Len(w) |->
        CASE casing = "lower" -> w[i]
          [] casing = "upper" -> UpperChar(w[i])
          [] casing = "capital" -> IF i = 1 THEN UpperChar(w[i]) ELSE w[i]
          [] casing = "tail" -> IF i = Len(w) THEN UpperChar(w[i]) ELSE w[i]]

\* the arguments: a padded respelling of a word, a bool, an int, or None; core
\* is the word the argument spells (its text, trimmed, in lower case)
NormInputs ==
    {[value |-> PyStr(l \o ApplyCase(w, c) \o r), core |-> w] :
        w \in StatusWords, c \in Casings, l \in Pads, r \in Pads}
    \cup {[value |-> PyBool(TRUE), core |-> <<"t","r","u","e">>],
          [value |-> PyBool(FALSE), core |-> <<"f","a","l","s","e">>],
          [value |-> PyInt(0), core |-> <<"0">>],
          [value |-> PyInt(1), core |-> <<"1">>],
          [value |-> PyInt(2), core |-> <<"2">>],
          [value |-> PyInt(10), core |-> <<"1","0">>],
          [value |-> None, core |-> <<>>]}

InitNorm ==
    /\ users = <<>>
    /\ stored = users
    /\ last = NoCall
    /\ dom = CHOOSE d \in InputSlices : d.salts = Salts
    /\ nArg \in NormInputs
    /\ nOut = Unset
    /\ nOut2 = Unset
    /\ SvcIdle
    /\ ViewIdle
    /\ FnIdle
    /\ MenuIdle

\* normalize_user_status(nArg)
Normalize ==
    /\ nOut = Unset
    /\ nOut' = normalize_user_status(nArg.value)
    /\ UNCHANGED <<nArg, nOut2, nonNormVars>>

\* normalize_user_status on what the first call returned
NormalizeAgain ==
    /\ nOut # Unset
    /\ nOut2 = Unset
    /\ nOut2' = normalize_user_status(nOut)
    /\ UNCHANGED <<nArg, nOut, nonNormVars>>

NextNorm ==
    \/ Normalize
    \/ NormalizeAgain

SpecNorm == InitNorm /\ [][NextNorm]_vars

\* the status words as the claim lists them
C2_ActiveSpellings == { <<"a","c","t","i","v","e">>, <<"a">>, <<"e","n","a","b","l","e","d">>,
                        <<"y","e","s">>, <<"t","r","u","e">>, <<"1">> }
C2_InactiveSpellings == { <<"i","n","a","c","t","i","v","e">>, <<"i">>,
                          <<"d","i","s","a","b","l","e","d">>, <<"n","o">>,
                          <<"f","a","l","s","e">>, <<"0">> }

\* C2: normalize_user_status maps, after trimming surrounding whitespace and
\* ignoring case, active/a/enabled/yes/true/1 to "Active",
\* inactive/i/disabled/no/false/0 to "Inactive" and every other input, None
\* included, to None; and normalizing its result again returns the same result.
C2_NormalizeMapping ==
    /\ nOut # Unset =>
          nOut = (IF nArg.value = None THEN None
                  ELSE IF nArg.core \in C2_ActiveSpellings THEN Active
                  ELSE IF nArg.core \in C2_InactiveSpellings THEN Inactive
                  ELSE None)
    /\ nOut2 # Unset => nOut2 = nOut

\* a padded upper-case spelling was normalized, and the result once more
C2_Witness ==
    /\ nArg.value = PyStr(<<"\t","D","I","S","A","B","L","E","D"," ">>)
    /\ nOut = Inactive
    /\ nOut2 = Inactive

(***************************************************************************)
(* admin_analytics_service.py                                              *)
(***************************************************************************)
\* the longest list a CRUD query returns
MaxRows == 2

ExcKinds == {"UnauthorizedAccessError", "DatabaseError", "AttributeError"}
Exc(kind, text) == [kind |-> kind, text |-> text]
\* the classes an exception of a kind is an instance of
ExcClasses(kind) == {kind, "Exception"}

\* dict.get(key)
DictGet(d, key) == IF key \in DOMAIN d THEN d[key] ELSE None

LowerAdmin == PyStr(<<"a","d","m","i","n">>)
\* current_user: session dicts with and without a role, and no dict at all
CurrentUsers ==
    { [role |-> Admin, username |-> Alice], [role |-> Engineer, username |-> Bob],
      [role |-> LowerAdmin, username |-> Bob], [role |-> None, username |-> Bob],
      [username |-> Bob], None }
Periods == {"today", "last_7_days", "last_month", "all", "this_year"}

\* a permission check that compares the role without regard to case
check_admin_permission_anycase(current_user) ==
    IF current_user = None
    THEN Exc("AttributeError", "'NoneType' object has no attribute 'get'")
    ELSE IF \/ DictGet(current_user, "role") = None
            \/ Lower(DictGet(current_user, "role").s) # Lower(Admin.s)
    THEN Exc("UnauthorizedAccessError",
             "Analytics features are only available to administrators")
    ELSE NoExc

\* check_admin_permission: the exception it raises, NoExc when it returns
check_admin_permission(current_user) ==
    IF current_user = None
    THEN Exc("AttributeError", "'NoneType' object has no attribute 'get'")
    ELSE IF DictGet(current_user, "role") # Admin
    THEN Exc("UnauthorizedAccessError",
             "Analytics features are only available to administrators")
    ELSE NoExc

FailureMessage ==
    [get_user_performance_summary |->
         "Failed to retrieve performance summary. Please try again.",
     get_team_comparison |-> "Failed to retrieve team comparison. Please try again.",
     get_work_timeline |-> "Failed to retrieve work timeline. Please try again.",
     get_productivity_insights |->
         "Failed to retrieve productivity insights. Please try again."]

\* what a call ends with: a returned dictionary, or an exception let through
Return(resp) == [resp |-> resp, exc |-> NoExc]

\* except clauses that catch DatabaseError where the code catches Exception
Handle_database_only(op, exc) ==
    IF "UnauthorizedAccessError" \in ExcClasses(exc.kind)
    THEN Return([success |-> FALSE, message |-> exc.text, error_type |-> "unauthorized"])
    ELSE IF "DatabaseError" \in ExcClasses(exc.kind)
    THEN Return([success |-> FALSE, message |-> FailureMessage[op],
                 error_type |-> "system_error"])
    ELSE [resp |-> NoResp, exc |-> exc]

\* the except clauses of the four operations, for an exception raised in try
Handle(op, exc) ==
    IF "UnauthorizedAccessError" \in ExcClasses(exc.kind)
    THEN Return([success |-> FALSE, message |-> exc.text, error_type |-> "unauthorized"])
    ELSE IF "Exception" \in ExcClasses(exc.kind)
    THEN Return([success |-> FALSE, message |-> FailureMessage[op],
                 error_type |-> "system_error"])
    ELSE [resp |-> NoResp, exc |-> exc]

\* what a CRUD query does: raise, or return one of the values
CrudOutcomes(values) ==
    {[raised |-> TRUE, exc |-> Exc(k, "crud failure")] : k \in ExcKinds}
    \cup {[raised |-> FALSE, value |-> v] : v \in values}

\* the entry of aCalls for a CRUD call
Call(fn, outcome) == [fn |-> fn, raised |-> outcome.raised, crud |-> TRUE]

\* the entry of aCalls for an attribute read on a row
Read(attr, raised) == [fn |-> attr, raised |-> raised, crud |-> FALSE]

\* a service that tries a CRUD call a second time when it raised
Finish_with_retry(req, calls, out) ==
    /\ aReq' = req
    /\ aCalls' = IF calls # <<>> /\ calls[Len(calls)].raised
                 THEN Append(calls, calls[Len(calls)])
                 ELSE calls
    /\ aResp' = out.resp
    /\ aExc' = out.exc
    /\ UNCHANGED nonSvcVars

\* the call returns to its caller; the service keeps nothing between calls,
\* and a run follows one call from SvcIdle to its return
Finish(req, calls, out) ==
    /\ aReq' = req
    /\ aCalls' = calls
    /\ aResp' = out.resp
    /\ aExc' = out.exc
    /\ UNCHANGED nonSvcVars

\* sum() of a list of numbers
RECURSIVE Sum(_)
Sum(list) == IF list = <<>> THEN 0 ELSE Head(list) + Sum(Tail(list))

\* the generator expression (x[key] for x in list)
Column(list, key) == [i \in 1..Len(list) |-> list[i][key]]

\* round(num / den, 2) in hundredths, ties to the even hundredth
Round2(num, den) ==
    LET q == (num * 100) \div den
        r == (num * 100) % den
    IN  IF 2 * r > den \/ (2 * r = den /\ q % 2 = 1) THEN q + 1 ELSE q

\* max(list, key=action_count) and min(list, key=action_count): the first
\* entry with the largest, the smallest count
MaxByCount(list) ==
    list[CHOOSE i \in 1..Len(list) :
            /\ \A j \in 1..Len(list) : list[j].action_count <= list[i].action_count
            /\ \A j \in 1..(i - 1) : list[j].action_count < list[i].action_count]
MinByCount(list) ==
    list[CHOOSE i \in 1..Len(list) :
            /\ \A j \in 1..Len(list) : list[j].action_count >= list[i].action_count
            /\ \A j \in 1..(i - 1) : list[j].action_count > list[i].action_count]

Lists(rows) == UNION {[1..n -> rows] : n \in 0..MaxRows}

\* what the CRUD queries return
ActivitySummaries == {[total_actions |-> n] : n \in {0, 4}}
SvcUserIds == {1, 2}
Emails == {None, PyStr(<<"a","@","x">>), Absent}
TeamRows == [total_actions : {0, 3}, equipment_extracted : {0, 2},
             avg_time_per_equipment_minutes : {0, 1, 2}]
WorkIds == {7, 8}
WorkRows(work_id) == [work_id : {work_id}, work_name : {"W"}, status : {"open"},
                      created_at : {None, PyStr(<<"2","0","2","5">>)}]
Timelines == Lists({[user_id |-> 1, minutes |-> 5]})
HourRows == [hour : {9, 14}, action_count : {1, 3}]
DayRows == [date : {"d1", "d2"}, action_count : {1, 2}]

\* get_user_performance_summary
GetUserPerformanceSummary ==
    /\ SvcIdle
    /\ \E current_user \in CurrentUsers, user_id \in SvcUserIds, period \in Periods :
        LET op == "get_user_performance_summary"
            req == [op |-> op, current_user |-> current_user, id |-> user_id,
                    period |-> period]
            perm == check_admin_permission(current_user)
        IN  IF perm # NoExc THEN Finish(req, <<>>, Handle(op, perm))
            ELSE \E o1 \in CrudOutcomes(ActivitySummaries) :
                LET c1 == <<Call("get_user_activity_summary", o1)>>
                IN  IF o1.raised THEN Finish(req, c1, Handle(op, o1.exc))
                    ELSE \E o2 \in CrudOutcomes({get_user_by_id(users, user_id)}),
                            email \in Emails :
                        LET c2 == Append(c1, Call("get_user_by_id", o2))
                            user == o2.value
                        IN  IF o2.raised THEN Finish(req, c2, Handle(op, o2.exc))
                            ELSE IF user = NoUser
                            THEN Finish(req, c2,
                                     Return([success |-> FALSE,
                                             message |-> "User with ID not found"]))
                            ELSE IF email = Absent
                            THEN \* user.email on a row without that attribute
                                 Finish(req, Append(c2, Read("user.email", TRUE)),
                                     Handle(op, Exc("AttributeError", "email")))
                            ELSE Finish(req, Append(c2, Read("user.email", FALSE)),
                                     Return([success |-> TRUE,
                                             data |-> [total_actions |->
                                                           o1.value.total_actions,
                                                       username |-> users[user].username,
                                                       full_name |-> users[user].full_name,
                                                       email |-> email,
                                                       role |-> users[user].role]]))

\* a filter that keeps every entry of team_data
Timed_all(team_data) == team_data

\* [u for u in team_data if u["avg_time_per_equipment_minutes"] > 0]
Timed(team_data) ==
    SelectSeq(team_data, LAMBDA u : u.avg_time_per_equipment_minutes > 0)

\* get_team_comparison
GetTeamComparison ==
    /\ SvcIdle
    /\ \E current_user \in CurrentUsers, period \in Periods :
        LET op == "get_team_comparison"
            req == [op |-> op, current_user |-> current_user, id |-> NoUser,
                    period |-> period]
            perm == check_admin_permission(current_user)
        IN  IF perm # NoExc THEN Finish(req, <<>>, Handle(op, perm))
            ELSE \E o1 \in CrudOutcomes(Lists(TeamRows)) :
                LET c1 == <<Call("get_team_performance_comparison", o1)>>
                    team_data == o1.value
                    timed == Timed(team_data)
                    summary ==
                        [total_engineers |-> Len(team_data),
                         total_team_actions |-> Sum(Column(team_data, "total_actions")),
                         total_equipment_extracted |-> Sum(Column(team_data, "equipment_extracted")),
                         team_avg_time_per_equipment |->
                             IF timed # <<>>
                             THEN Round2(Sum(Column(timed, "avg_time_per_equipment_minutes")), Len(timed))
                             ELSE 0,
                         period |-> period]
                IN  IF o1.raised THEN Finish(req, c1, Handle(op, o1.exc))
                    ELSE Finish(req, c1,
                             Return([success |-> TRUE, data |-> team_data,
                                     summary |-> summary]))

\* get_work_timeline
GetWorkTimeline ==
    /\ SvcIdle
    /\ \E current_user \in CurrentUsers, work_id \in WorkIds :
        LET op == "get_work_timeline"
            req == [op |-> op, current_user |-> current_user, id |-> work_id,
                    period |-> "none"]
            perm == check_admin_permission(current_user)
        IN  IF perm # NoExc THEN Finish(req, <<>>, Handle(op, perm))
            ELSE \E o1 \in CrudOutcomes(Timelines) :
                LET c1 == <<Call("get_work_duration_by_user", o1)>>
                IN  IF o1.raised THEN Finish(req, c1, Handle(op, o1.exc))
                    ELSE \E o2 \in CrudOutcomes(WorkRows(work_id) \cup {None}) :
                        LET c2 == Append(c1, Call("get_work_by_id", o2))
                            work == o2.value
                        IN  IF o2.raised THEN Finish(req, c2, Handle(op, o2.exc))
                            ELSE IF work = None
                            THEN Finish(req, c2,
                                     Return([success |-> FALSE,
                                             message |-> "Work with ID not found"]))
                            ELSE Finish(req, c2,
                                     Return([success |-> TRUE, data |-> o1.value,
                                             work_info |->
                                                 [work_id |-> work.work_id,
                                                  work_name |-> work.work_name,
                                                  status |-> work.status,
                                                  created_at |-> work.created_at]]))

\* get_productivity_insights
GetProductivityInsights ==
    /\ SvcIdle
    /\ \E current_user \in CurrentUsers, user_id \in SvcUserIds \cup {NoUser},
       period \in Periods :
        LET op == "get_productivity_insights"
            req == [op |-> op, current_user |-> current_user, id |-> user_id,
                    period |-> period]
            perm == check_admin_permission(current_user)
        IN  IF perm # NoExc THEN Finish(req, <<>>, Handle(op, perm))
            ELSE \E o1 \in CrudOutcomes(Lists(HourRows)) :
                LET c1 == <<Call("get_hourly_productivity", o1)>>
                IN  IF o1.raised THEN Finish(req, c1, Handle(op, o1.exc))
                    ELSE \E o2 \in CrudOutcomes(Lists(DayRows)) :
                        LET c2 == Append(c1, Call("get_daily_activity", o2))
                            hourly_data == o1.value
                            daily_data == o2.value
                            peak_hours ==
                                IF hourly_data # <<>>
                                THEN [most_productive_hour |->
                                          MaxByCount(hourly_data).hour,
                                      most_productive_count |->
                                          MaxByCount(hourly_data).action_count,
                                      least_productive_hour |->
                                          MinByCount(hourly_data).hour,
                                      least_productive_count |->
                                          MinByCount(hourly_data).action_count]
                                ELSE <<>>
                            insights ==
                                [total_days_active |-> Len(daily_data),
                                 avg_actions_per_day |->
                                     IF daily_data # <<>>
                                     THEN Round2(Sum(Column(daily_data, "action_count")),
                                                 Len(daily_data))
                                     ELSE 0,
                                 most_active_day |->
                                     IF daily_data # <<>>
                                     THEN MaxByCount(daily_data).date ELSE "None"]
                        IN  IF o2.raised THEN Finish(req, c2, Handle(op, o2.exc))
                            ELSE Finish(req, c2,
                                     Return([success |-> TRUE,
                                             data |-> [hourly_productivity |-> hourly_data,
                                                       daily_activity |-> daily_data,
                                                       peak_hours |-> peak_hours,
                                                       insights |-> insights]]))

\* the users table the service reads: empty, or holding user 1
SvcTables ==
    { <<>>,
      <<[username |-> Alice, full_name |-> PyStr(<<"A"," ","L","e","e">>),
         password |-> hash_password(Pw1, 1), role |-> Engineer, status |-> Active]>> }

InitSvc ==
    /\ users \in SvcTables
    /\ stored = users
    /\ last = NoCall
    /\ dom = CHOOSE d \in InputSlices : d.salts = Salts
    /\ nArg = [value |-> None, core |-> <<>>]
    /\ nOut = Unset
    /\ nOut2 = Unset
    /\ SvcIdle
    /\ ViewIdle
    /\ FnIdle
    /\ MenuIdle

NextSvc ==
    \/ GetUserPerformanceSummary
    \/ GetTeamComparison
    \/ GetWorkTimeline
    \/ GetProductivityInsights

SpecSvc == InitSvc /\ [][NextSvc]_vars

(***************************************************************************)
(* admin_analytics_service.py: _calculate_date_range                       *)
(***************************************************************************)
\* the state around a function called on its own
OnlyFn ==
    /\ users = <<>>
    /\ stored = users
    /\ last = NoCall
    /\ dom = CHOOSE d \in InputSlices : d.salts = Salts
    /\ nArg = [value |-> None, core |-> <<>>]
    /\ nOut = Unset
    /\ nOut2 = Unset
    /\ SvcIdle
    /\ ViewIdle
    /\ MenuIdle

\* a datetime: the day as an ordinal, and the time of day
DateTime(day, hour, minute, second, microsecond) ==
    [day |-> day, hour |-> hour, minute |-> minute, second |-> second,
     microsecond |-> microsecond]

\* datetime <= datetime
DtLe(a, b) ==
    LET ta == <<a.day, a.hour, a.minute, a.second, a.microsecond>>
        tb == <<b.day, b.hour, b.minute, b.second, b.microsecond>>
    IN  \/ ta = tb
        \/ \E i \in 1..5 : ta[i] < tb[i] /\ \A j \in 1..(i - 1) : ta[j] = tb[j]

\* a timedelta taken the wrong way
MinusDays_added(dt, days) == [dt EXCEPT !.day = @ + days]

\* datetime - timedelta(days=days)
MinusDays(dt, days) == [dt EXCEPT !.day = @ - days]

\* _calculate_date_range, with datetime.utcnow() returning now
calculate_date_range(period, now) ==
    IF period = "all" THEN <<None, None>>
    ELSE IF period = "today"
    THEN <<[now EXCEPT !.hour = 0, !.minute = 0, !.second = 0, !.microsecond = 0],
           [now EXCEPT !.hour = 23, !.minute = 59, !.second = 59,
                       !.microsecond = 999999]>>
    ELSE IF period = "last_7_days" THEN <<MinusDays(now, 7), now>>
    ELSE IF period = "last_month" THEN <<MinusDays(now, 30), now>>
    ELSE <<None, None>>

\* the periods it is called with: the four it knows and others
DatePeriods == {"all", "today", "last_7_days", "last_month",
                "this_year", "Today", "last_30_days", ""}
\* the instants datetime.utcnow() returns
Nows ==
    {DateTime(day, hour, minute, second, microsecond) :
        day \in {738000, 738031}, hour \in {0, 12, 23}, minute \in {0, 59},
        second \in {0, 59}, microsecond \in {0, 999999}}

InitDate ==
    /\ OnlyFn
    /\ fnArgs \in {[fn |-> "_calculate_date_range", period |-> period, now |-> now] :
                      period \in DatePeriods, now \in Nows}
    /\ fnOut = Unset

CalculateDateRange ==
    /\ fnArgs.fn = "_calculate_date_range"
    /\ fnOut = Unset
    /\ fnOut' = Returned(calculate_date_range(fnArgs.period, fnArgs.now))
    /\ UNCHANGED <<fnArgs, nonFnVars>>

NextDate ==
    \/ CalculateDateRange

SpecDate == InitDate /\ [][NextDate]_vars

\* C12: _calculate_date_range(period) returns (None, None) for "all" and for
\* every unrecognised period; for "today" the pair (start, end) on the
\* current UTC day with start = 00:00:00 <= now <= end = 23:59:59.999999; for
\* "last_7_days" (now - 7 days, now); for "last_month" (now - 30 days, now);
\* whenever the result is not (None, None), start <= end.
C12_DateRange ==
    (fnArgs.fn = "_calculate_date_range" /\ fnOut # Unset) =>
        LET period == fnArgs.period
            now == fnArgs.now
            start == fnOut.value[1]
            end == fnOut.value[2]
            time(dt) == <<dt.hour, dt.minute, dt.second, dt.microsecond>>
        IN  /\ period \notin {"today", "last_7_days", "last_month"} =>
                   fnOut.value = <<None, None>>
            /\ period = "today" =>
                   /\ start.day = now.day /\ time(start) = <<0, 0, 0, 0>>
                   /\ end.day = now.day /\ time(end) = <<23, 59, 59, 999999>>
                   /\ DtLe(start, now) /\ DtLe(now, end)
            /\ period = "last_7_days" =>
                   /\ start.day = now.day - 7 /\ time(start) = time(now)
                   /\ end = now
            /\ period = "last_month" =>
                   /\ start.day = now.day - 30 /\ time(start) = time(now)
                   /\ end = now
            /\ fnOut.value # <<None, None>> => DtLe(start, end)

\* the range of the last seven days, asked at the last microsecond of a day
C12_Witness ==
    /\ fnArgs.fn = "_calculate_date_range"
    /\ fnArgs.period = "last_7_days"
    /\ fnArgs.now = DateTime(738031, 23, 59, 59, 999999)
    /\ fnOut = Returned(<<DateTime(738024, 23, 59, 59, 999999), fnArgs.now>>)

(***************************************************************************)
(* excel_validator.py                                                      *)
(***************************************************************************)
\* the most entries a directory holds
MaxFiles == 2
\* ExcelFileType
DEFAULT == "default"
UPDATED == "updated"
NOT_FOUND == "not_found"

\* str.endswith(suffix)
EndsWith(s, suffix) ==
    /\ Len(s) >= Len(suffix)
    /\ SubSeq(s, Len(s) - Len(suffix) + 1, Len(s)) = suffix

\* os.path.join(directory, fname)
PathJoin(directory, fname) == PyStr(<<directory, "/">> \o fname)

\* a search that compares the extension as it is spelled
find_excel_file_case_sensitive(directory, listing) ==
    IF listing = None THEN None
    ELSE LET hits == {i \in 1..Len(listing.names) :
                        \/ EndsWith(listing.names[i], <<".","x","l","s","x">>)
                        \/ EndsWith(listing.names[i], <<".","x","l","s">>)}
         IN  IF hits = {} THEN None
             ELSE PathJoin(directory,
                           listing.names[CHOOSE i \in hits : \A j \in hits : i <= j])

\* _find_excel_file: listing is None when the path is no directory, else the
\* names os.listdir returns, in its order
find_excel_file(directory, listing) ==
    IF listing = None THEN None
    ELSE LET hits == {i \in 1..Len(listing.names) :
                        \/ EndsWith(Lower(listing.names[i]), <<".","x","l","s","x">>)
                        \/ EndsWith(Lower(listing.names[i]), <<".","x","l","s">>)}
         IN  IF hits = {} THEN None
             ELSE PathJoin(directory,
                           listing.names[CHOOSE i \in hits : \A j \in hits : i <= j])

critical_fields == <<"fluid", "type", "spec", "grade">>

\* _has_completed_work: a component with two critical fields filled
has_completed_work(equipment) ==
    \E c \in 1..Len(equipment.components) :
        Cardinality({f \in 1..Len(critical_fields) :
                        Truthy(equipment.components[c][critical_fields[f]])}) >= 2

\* _get_equipment_with_work: workbook is what read_masterfile returns, in the
\* order of its items; fails_at is the item at which reading raises (0: none,
\* 1: also ExcelManager or read_masterfile itself raising)
get_equipment_with_work(workbook, fails_at) ==
    LET read == IF fails_at = 0 THEN Len(workbook) ELSE fails_at - 1
    IN  {workbook[i].eq_no : i \in {j \in 1..read : has_completed_work(workbook[j])}}

\* get_excel_file_info on a file system fs
get_excel_file_info(fs) ==
    LET updated_file == find_excel_file("updated", fs.updated)
        default_file == find_excel_file("default", fs.default)
    IN  IF updated_file # None
        THEN LET equipment_with_work ==
                     get_equipment_with_work(fs.workbook, fs.fails_at)
             IN  [file_type |-> UPDATED, file_path |-> updated_file,
                  has_work_done |-> Cardinality(equipment_with_work) > 0,
                  equipment_with_work |-> equipment_with_work,
                  last_modified |-> fs.mtime]
        ELSE IF default_file # None
        THEN [file_type |-> DEFAULT, file_path |-> default_file,
              has_work_done |-> FALSE, equipment_with_work |-> {},
              last_modified |-> fs.mtime]
        ELSE [file_type |-> NOT_FOUND, file_path |-> None,
              has_work_done |-> FALSE, equipment_with_work |-> {},
              last_modified |-> None]

\* can_upload_equipment
can_upload_equipment(excel_file_info, equipment_number) ==
    IF excel_file_info.file_type = NOT_FOUND
    THEN <<FALSE, "No Excel file found. Please upload default file first.">>
    ELSE IF equipment_number \in excel_file_info.equipment_with_work
    THEN <<FALSE, "Equipment already has work done. Cannot re-upload.">>
    ELSE <<TRUE, "OK">>

\* directory entries, and what a directory can hold
FileNames == { <<"m",".","x","l","s","x">>, <<"M",".","X","L","S">>,
               <<"a",".","t","x","t">> }
Listings == {None} \cup
            {[names |-> names] : names \in UNION {[1..n -> FileNames] : n \in 0..MaxFiles}}

\* components: nothing filled, one field, an empty string and one field, two
Components ==
    { [fluid |-> None, type |-> None, spec |-> None, grade |-> None],
      [fluid |-> PyStr(<<"H","C">>), type |-> EmptyStr, spec |-> None, grade |-> None],
      [fluid |-> PyStr(<<"H","C">>), type |-> None, spec |-> None,
       grade |-> PyStr(<<"B">>)] }
EquipmentNumbers == {"V-001", "V-002"}
ComponentLists == {<<>>} \cup {<<c>> : c \in Components} \cup
    {<<[fluid |-> None, type |-> None, spec |-> None, grade |-> None], c>> :
        c \in Components}
\* the equipment maps the updated workbook holds
Workbooks ==
    {<<>>} \cup
    {<<[eq_no |-> "V-001", components |-> c1]>> : c1 \in ComponentLists} \cup
    {<<[eq_no |-> "V-001", components |-> c1], [eq_no |-> "V-002", components |-> <<c2>>]>> :
        c1 \in {<<>>} \cup {<<c>> : c \in Components},
        c2 \in {c \in Components : c.fluid # None}}

FileSystems ==
    {[updated |-> u, default |-> d, workbook |-> w, fails_at |-> k,
      mtime |-> [t |-> "float", v |-> 100]] :
        u \in Listings, d \in Listings, w \in Workbooks, k \in 0..2}

InitExcel ==
    /\ OnlyFn
    /\ fnArgs \in {[fn |-> "get_excel_file_info", fs |-> fs, equipment_number |-> e] :
                      fs \in {f \in FileSystems : f.fails_at <= Len(f.workbook)},
                      e \in EquipmentNumbers \cup {"V-003"}}
    /\ fnOut = Unset

GetExcelFileInfo ==
    /\ fnArgs.fn = "get_excel_file_info"
    /\ fnOut = Unset
    /\ fnOut' = Returned(get_excel_file_info(fnArgs.fs))
    /\ UNCHANGED <<fnArgs, nonFnVars>>

\* can_upload_equipment on the info get_excel_file_info returned
CanUploadEquipment ==
    /\ fnArgs.fn = "get_excel_file_info"
    /\ fnOut # Unset
    /\ fnArgs' = [fnArgs EXCEPT !.fn = "can_upload_equipment"]
    /\ fnOut' = [t |-> "returned", value |-> fnOut.value,
                 can_upload |-> can_upload_equipment(fnOut.value,
                                                     fnArgs.equipment_number)]
    /\ UNCHANGED nonFnVars

NextExcel ==
    \/ GetExcelFileInfo
    \/ CanUploadEquipment

SpecExcel == InitExcel /\ [][NextExcel]_vars

\* an entry the claims call an Excel file: its name ends in .xlsx or .xls,
\* in whatever case
IsExcelName(name) ==
    \E ext \in { <<".","x","l","s","x">>, <<".","x","l","s">> } :
        /\ Len(name) >= Len(ext)
        /\ \A i \in 1..Len(ext) :
               LowerChar(name[Len(name) - Len(ext) + i]) = ext[i]
HasExcel(listing) ==
    /\ listing # None
    /\ \E i \in 1..Len(listing.names) : IsExcelName(listing.names[i])

\* the equipment has completed work in the workbook: a component with at
\* least 2 of fluid/type/spec/grade filled
CompletedInWorkbook(workbook, equipment_number) ==
    \E i \in 1..Len(workbook) :
        /\ workbook[i].eq_no = equipment_number
        /\ \E c \in 1..Len(workbook[i].components) :
               Cardinality({f \in {"fluid", "type", "spec", "grade"} :
                               /\ workbook[i].components[c][f] # None
                               /\ workbook[i].components[c][f] # EmptyStr}) >= 2

\* C13: can_upload_equipment returns (True, "OK") only if an Excel file exists
\* for the work and the equipment has no completed work in the updated Excel
\* file; it returns False when no Excel file is found and False for every
\* equipment that has completed work in the updated file.
C13_NoReupload ==
    fnArgs.fn = "can_upload_equipment" =>
        LET fs == fnArgs.fs
            done == /\ HasExcel(fs.updated)
                    /\ CompletedInWorkbook(fs.workbook, fnArgs.equipment_number)
            found == HasExcel(fs.updated) \/ HasExcel(fs.default)
        IN  /\ fnOut.can_upload = <<TRUE, "OK">> => (found /\ ~done)
            /\ ~found => fnOut.can_upload[1] = FALSE
            /\ done => fnOut.can_upload[1] = FALSE

\* C14: get_excel_file_info checks the updated location first: file_type is
\* UPDATED whenever the updated directory holds an Excel file, DEFAULT only
\* when it holds none and the default directory holds one, NOT_FOUND only when
\* neither does; file_path is None iff file_type is NOT_FOUND, has_work_done
\* iff equipment_with_work is non-empty, and has_work_done is false for
\* DEFAULT and NOT_FOUND.
C14_FileInfo ==
    (fnArgs.fn \in {"get_excel_file_info", "can_upload_equipment"} /\ fnOut # Unset) =>
        LET fs == fnArgs.fs
            info == fnOut.value
        IN  /\ HasExcel(fs.updated) => info.file_type = UPDATED
            /\ info.file_type = DEFAULT => (~HasExcel(fs.updated) /\ HasExcel(fs.default))
            /\ info.file_type = NOT_FOUND =>
                   (~HasExcel(fs.updated) /\ ~HasExcel(fs.default))
            /\ info.file_type \in {UPDATED, DEFAULT, NOT_FOUND}
            /\ info.file_path = None <=> info.file_type = NOT_FOUND
            /\ info.has_work_done <=> info.equipment_with_work # {}
            /\ info.file_type \in {DEFAULT, NOT_FOUND} => ~info.has_work_done

\* both directories hold a workbook, the updated one spelled in capitals
\* after a text file: the updated one is reported, with work done
C14_Witness ==
    /\ fnArgs.fn = "get_excel_file_info"
    /\ fnOut # Unset
    /\ fnArgs.fs.updated = [names |-> << <<"a",".","t","x","t">>, <<"M",".","X","L","S">> >>]
    /\ HasExcel(fnArgs.fs.default)
    /\ fnOut.value.file_type = UPDATED
    /\ fnOut.value.file_path = PyStr(<<"updated", "/", "M",".","X","L","S">>)
    /\ fnOut.value.has_work_done

(***************************************************************************)
(* validation_rules.py                                                     *)
(***************************************************************************)
UsernameRules == [MIN_LENGTH |-> 3, MAX_LENGTH |-> 50]
PasswordRules == [MIN_LENGTH |-> 8, MAX_LENGTH |-> 128, REQUIRE_UPPERCASE |-> TRUE,
                  REQUIRE_LOWERCASE |-> TRUE, REQUIRE_DIGITS |-> TRUE,
                  REQUIRE_SPECIAL |-> FALSE]

\* a message, and one with a number formatted into it
Message(text) == [t |-> "message", text |-> text]
FMessage(head, n, tail) == [t |-> "message", text |-> head, n |-> n, tail |-> tail]

\* c.isupper(), c.islower(), c.isdigit() on the characters used here
IsUpper(c) == \E i \in 1..26 : UpperChars[i] = c
IsLower(c) == \E i \in 1..26 : LowerChars[i] = c
IsDigit(c) == \E i \in 1..10 : DigitChars[i] = c

\* the character class [a-zA-Z0-9_-]
InUsernameClass(c) == IsUpper(c) \/ IsLower(c) \/ IsDigit(c) \/ c \in {"_", "-"}

\* re.match(r'^[a-zA-Z0-9_-]+$', s): one or more characters of the class up
\* to the end of the string, where $ also matches before a final newline
ReMatchUsername(s) ==
    LET body == IF Len(s) > 0 /\ s[Len(s)] = "\n" THEN SubSeq(s, 1, Len(s) - 1) ELSE s
    IN  \/ Len(s) > 0 /\ \A i \in 1..Len(s) : InUsernameClass(s[i])
        \/ Len(body) > 0 /\ \A i \in 1..Len(body) : InUsernameClass(body[i])

\* get_username_validation_error
get_username_validation_error(username) ==
    IF ~Truthy(username) THEN Message("Username is required")
    ELSE IF Len(username.s) < UsernameRules.MIN_LENGTH
    THEN FMessage("Username must be at least ", UsernameRules.MIN_LENGTH, " characters")
    ELSE IF Len(username.s) > UsernameRules.MAX_LENGTH
    THEN FMessage("Username must be at most ", UsernameRules.MAX_LENGTH, " characters")
    ELSE IF ~ReMatchUsername(username.s)
    THEN Message("Username can only contain letters, numbers, underscore, and hyphen")
    ELSE None

\* a validator that asks for the lowercase letter before the uppercase one
get_password_validation_error_lower_first(password) ==
    IF ~Truthy(password) THEN Message("Password is required")
    ELSE IF Len(password.s) < PasswordRules.MIN_LENGTH
    THEN FMessage("Password must be at least ", PasswordRules.MIN_LENGTH, " characters")
    ELSE IF Len(password.s) > PasswordRules.MAX_LENGTH
    THEN FMessage("Password must be at most ", PasswordRules.MAX_LENGTH, " characters")
    ELSE IF PasswordRules.REQUIRE_LOWERCASE
            /\ ~\E i \in 1..Len(password.s) : IsLower(password.s[i])
    THEN Message("Password must contain at least one lowercase letter")
    ELSE IF PasswordRules.REQUIRE_UPPERCASE
            /\ ~\E i \in 1..Len(password.s) : IsUpper(password.s[i])
    THEN Message("Password must contain at least one uppercase letter")
    ELSE IF PasswordRules.REQUIRE_DIGITS
            /\ ~\E i \in 1..Len(password.s) : IsDigit(password.s[i])
    THEN Message("Password must contain at least one digit")
    ELSE None

\* get_password_validation_error
get_password_validation_error(password) ==
    IF ~Truthy(password) THEN Message("Password is required")
    ELSE IF Len(password.s) < PasswordRules.MIN_LENGTH
    THEN FMessage("Password must be at least ", PasswordRules.MIN_LENGTH, " characters")
    ELSE IF Len(password.s) > PasswordRules.MAX_LENGTH
    THEN FMessage("Password must be at most ", PasswordRules.MAX_LENGTH, " characters")
    ELSE IF PasswordRules.REQUIRE_UPPERCASE
            /\ ~\E i \in 1..Len(password.s) : IsUpper(password.s[i])
    THEN Message("Password must contain at least one uppercase letter")
    ELSE IF PasswordRules.REQUIRE_LOWERCASE
            /\ ~\E i \in 1..Len(password.s) : IsLower(password.s[i])
    THEN Message("Password must contain at least one lowercase letter")
    ELSE IF PasswordRules.REQUIRE_DIGITS
            /\ ~\E i \in 1..Len(password.s) : IsDigit(password.s[i])
    THEN Message("Password must contain at least one digit")
    ELSE None

\* a string of the given length: first, then fill repeated, then final
Filled(len, first, fill, final) ==
    [i \in 1..len |-> IF i = len THEN final ELSE IF i = 1 THEN first ELSE fill]

\* the usernames the validator is given: lengths around both limits, a
\* character of or outside the class at the start, the middle and the end
UsernameChars == {"a", "Z", "7", "_", "-", " ", "\n", "\t", "!", "é"}
UsernameInputs ==
    {PyStr(Filled(len, first, fill, final)) :
        len \in {0, 1, 2, 3, 4, 50, 51}, first \in UsernameChars,
        fill \in {"a", "\n"}, final \in UsernameChars}

\* the passwords the validator is given
PasswordChars == {"a", "A", "1", "!"}
PasswordInputs ==
    {PyStr(Filled(len, first, fill, final)) :
        len \in {0, 1, 2, 7, 8, 9, 128, 129}, first \in PasswordChars,
        fill \in PasswordChars, final \in PasswordChars}

InitValidation ==
    /\ OnlyFn
    /\ fnArgs \in {[fn |-> "get_username_validation_error", username |-> u] :
                      u \in UsernameInputs}
              \cup {[fn |-> "get_password_validation_error", password |-> p] :
                      p \in PasswordInputs}
    /\ fnOut = Unset

GetUsernameValidationError ==
    /\ fnArgs.fn = "get_username_validation_error"
    /\ fnOut = Unset
    /\ fnOut' = Returned(get_username_validation_error(fnArgs.username))
    /\ UNCHANGED <<fnArgs, nonFnVars>>

GetPasswordValidationError ==
    /\ fnArgs.fn = "get_password_validation_error"
    /\ fnOut = Unset
    /\ fnOut' = Returned(get_password_validation_error(fnArgs.password))
    /\ UNCHANGED <<fnArgs, nonFnVars>>

NextValidation ==
    \/ GetUsernameValidationError
    \/ GetPasswordValidationError

SpecValidation == InitValidation /\ [][NextValidation]_vars

\* ASCII letters, digits, underscore and hyphen, as the claim lists them
C15_Allowed ==
    {"a","b","c","d","e","f","g","h","i","j","k","l","m","n","o","p","q","r","s","t",
     "u","v","w","x","y","z","A","B","C","D","E","F","G","H","I","J","K","L","M","N",
     "O","P","Q","R","S","T","U","V","W","X","Y","Z","0","1","2","3","4","5","6","7",
     "8","9","_","-"}

\* C15: get_username_validation_error returns None if and only if the
\* username has between 3 and 50 characters, each an ASCII letter, digit,
\* underscore or hyphen; for every other string (strings with whitespace or a
\* newline anywhere included) it returns a non-empty error message.
C15_UsernameValid ==
    (fnArgs.fn = "get_username_validation_error" /\ fnOut # Unset) =>
        LET s == fnArgs.username.s
            valid == /\ 3 <= Len(s) /\ Len(s) <= 50
                     /\ \A i \in 1..Len(s) : s[i] \in C15_Allowed
        IN  /\ fnOut.value = None <=> valid
            /\ ~valid => (fnOut.value # None /\ fnOut.value.text # "")

\* C16: get_password_validation_error returns None if and only if the
\* password has between 8 and 128 characters and contains an uppercase
\* letter, a lowercase letter and a digit; otherwise it returns the message
\* of the first violated rule in the order required, minimum length, maximum
\* length, uppercase, lowercase, digit.
C16_PasswordValid ==
    (fnArgs.fn = "get_password_validation_error" /\ fnOut # Unset) =>
        LET s == fnArgs.password.s
            has(set) == \E i \in 1..Len(s) : s[i] \in set
            upper == {UpperChars[i] : i \in 1..26}
            lower == {LowerChars[i] : i \in 1..26}
            digit == {DigitChars[i] : i \in 1..10}
            expected ==
                IF Len(s) = 0 THEN Message("Password is required")
                ELSE IF Len(s) < 8
                THEN FMessage("Password must be at least ", 8, " characters")
                ELSE IF Len(s) > 128
                THEN FMessage("Password must be at most ", 128, " characters")
                ELSE IF ~has(upper)
                THEN Message("Password must contain at least one uppercase letter")
                ELSE IF ~has(lower)
                THEN Message("Password must contain at least one lowercase letter")
                ELSE IF ~has(digit)
                THEN Message("Password must contain at least one digit")
                ELSE None
        IN  /\ fnOut.value = expected
            /\ fnOut.value = None <=>
                   (8 <= Len(s) /\ Len(s) <= 128 /\ has(upper) /\ has(lower) /\ has(digit))

\* a password of 128 characters without a letter in capitals or a digit is
\* told about the capitals first
C16_Witness ==
    /\ fnArgs.fn = "get_password_validation_error"
    /\ Len(fnArgs.password.s) = 128
    /\ \A i \in 1..128 : fnArgs.password.s[i] \in {"a", "!"}
    /\ fnOut = Returned(Message("Password must contain at least one uppercase letter"))

(***************************************************************************)
(* admin_menu.py: AdminMenuView.initialize_analytics_data                  *)
(***************************************************************************)
\* a float, kept in hundredths
PyFloat(hundredths) == [t |-> "float", h |-> hundredths]

\* int(x) of a float or an int that is not negative
IntOf(x) == IF x.t = "float" THEN PyInt(x.h \div 100) ELSE x

\* the dictionary returned on failure
ZeroAnalytics ==
    [work_completion |-> PyInt(0), total_equipment |-> PyInt(0),
     equipment_extracted |-> PyInt(0), avg_health_score |-> PyInt(0)]

\* the try block once the session is open; queries[i] is what the i-th
\* DatabaseService query does: Absent when it raises, else what it returns
analytics_try(queries) ==
    LET completed_work == queries[1]
        total_equipment == queries[2]
        extracted_equipment == queries[3]
        avg_health_score == queries[4]
        total_percentage == Sum(completed_work.values)
        completion_rate ==
            IF completed_work.values # <<>>
            THEN PyInt(total_percentage \div Len(completed_work.values))
            ELSE PyInt(0)
    IN  IF \E i \in 1..4 : queries[i] = Absent
        THEN ZeroAnalytics             \* except Exception
        ELSE IF completed_work = None
        THEN ZeroAnalytics             \* None.values(): AttributeError
        ELSE [work_completion |-> completion_rate,
              total_equipment |-> IF total_equipment # None THEN total_equipment
                                  ELSE PyInt(0),
              equipment_extracted |-> IF extracted_equipment # None
                                      THEN extracted_equipment ELSE PyInt(0),
              avg_health_score |-> IF avg_health_score # None
                                   THEN IntOf(avg_health_score) ELSE PyInt(0)]

\* initialize_analytics_data: try, except Exception, finally db.close().
\* When SessionLocal() raises, db is never bound and db.close() in the
\* finally block raises UnboundLocalError in place of the return.
initialize_analytics_data(env) ==
    IF env.session_fails
    THEN [t |-> "raised", kind |-> "UnboundLocalError", opened |-> FALSE, closes |-> 0]
    ELSE [t |-> "returned", value |-> analytics_try(env.queries),
          opened |-> TRUE, closes |-> 1]

\* what the four queries return
CompletedWorks == {None, [values |-> <<>>], [values |-> <<50>>],
                   [values |-> <<100, 51>>]}
EquipmentCounts == {None, PyInt(0), PyInt(12)}
HealthScores == {None, PyFloat(8765), PyInt(40)}
QueryResults ==
    {<<w, n, x, h>> : w \in CompletedWorks, n \in EquipmentCounts,
                      x \in {None, PyInt(5)}, h \in HealthScores}
\* the same with the query at position k raising, the later ones not reached
FailingAt(queries, k) == [i \in 1..4 |-> IF i = k THEN Absent ELSE queries[i]]
AnalyticsEnvs ==
    {[session_fails |-> f, queries |-> q] :
        f \in BOOLEAN,
        q \in QueryResults \cup {FailingAt(r, k) : r \in QueryResults, k \in 1..4}}

InitAdminMenu ==
    /\ OnlyFn
    /\ fnArgs \in {[fn |-> "initialize_analytics_data", env |-> env] :
                      env \in AnalyticsEnvs}
    /\ fnOut = Unset

InitializeAnalyticsData ==
    /\ fnArgs.fn = "initialize_analytics_data"
    /\ fnOut = Unset
    /\ fnOut' = initialize_analytics_data(fnArgs.env)
    /\ UNCHANGED <<fnArgs, nonFnVars>>

NextAdminMenu ==
    \/ InitializeAnalyticsData

SpecAdminMenu == InitAdminMenu /\ [][NextAdminMenu]_vars

\* C18: initialize_analytics_data never raises: when opening the session or
\* a DatabaseService query fails it returns the dictionary of zeros; a session
\* that was opened is closed exactly once on every path; the completion rate
\* is 0 when there are no works.
C18_AnalyticsNeverRaises ==
    (fnArgs.fn = "initialize_analytics_data" /\ fnOut # Unset) =>
        LET env == fnArgs.env
            failed == env.session_fails \/ \E i \in 1..4 : env.queries[i] = Absent
        IN  /\ fnOut.t = "returned"
            /\ failed => fnOut.value = ZeroAnalytics
            /\ fnOut.closes = (IF fnOut.opened THEN 1 ELSE 0)
            /\ (~failed /\ env.queries[1] = [values |-> <<>>]) =>
                   fnOut.value.work_completion = PyInt(0)

(***************************************************************************)
(* main_menu.py: the datetime label and its after() callback.  The parent  *)
(* of the view is the application window, which exists as long as the      *)
(* event loop runs; the one MainMenuView object is built once by app.py    *)
(* and shown again on every return to the menu.  admin_menu.py has the     *)
(* same code.  Time is counted in half seconds.                            *)
(***************************************************************************)
MaxShows == 2
MaxTime == 4
\* after(1000, ...), in half seconds
Delay == 2

\* strftime of the current time, to the second
Strftime(now) == now \div Delay

\* _update_datetime on the view self with the window root
update_datetime(self, root) ==
    IF self.datetime_label = NoLabel \/ self.datetime_label \notin root.widgets
    THEN [self |-> self, root |-> root]
    ELSE [self |-> [self EXCEPT !.text = Strftime(root.now)],
          root |-> [root EXCEPT !.timers = Append(@, root.now + Delay)]]

\* show(): destroys the window's children, builds a new label, keeps it in
\* self._datetime_label and calls _update_datetime()
MenuShow ==
    /\ menu.shows < MaxShows
    /\ LET label == menu.shows + 1
           built == [menu EXCEPT !.datetime_label = label, !.text = NoText,
                                 !.shows = label]
           r == update_datetime(built, [tk EXCEPT !.widgets = {label}])
       IN  /\ menu' = r.self
           /\ tk' = r.root
    /\ UNCHANGED nonMenuVars

\* another view's show() destroys the window's children
NavigateAway ==
    /\ tk.widgets # {}
    /\ tk' = [tk EXCEPT !.widgets = {}]
    /\ UNCHANGED <<menu, nonMenuVars>>

\* the event loop runs a queued callback that is due
TimerFires ==
    /\ tk.timers # <<>>
    /\ Head(tk.timers) <= tk.now
    /\ LET r == update_datetime(menu, [tk EXCEPT !.timers = Tail(@)])
       IN  /\ menu' = r.self
           /\ tk' = r.root
    /\ UNCHANGED nonMenuVars

\* half a second passes
Tick ==
    /\ tk.now < MaxTime
    /\ tk' = [tk EXCEPT !.now = @ + 1]
    /\ UNCHANGED <<menu, nonMenuVars>>

InitClock ==
    /\ OnlyFn
    /\ FnIdle

NextClock ==
    \/ MenuShow
    \/ NavigateAway
    \/ TimerFires
    \/ Tick

SpecClock == InitClock /\ [][NextClock]_vars

\* at most one _update_datetime callback is queued
C19_AtMostOnePending == Len(tk.timers) <= 1

\* while the label is destroyed and show() is not called, no callback is queued
C19_ChainStops ==
    [][(menu.datetime_label \notin tk.widgets /\ menu'.shows = menu.shows)
          => Len(tk'.timers) <= Len(tk.timers)]_vars

\* C19: under any interleaving of show(), navigation away and timer firings
\* at most one _update_datetime callback is pending for the view, and once
\* the label is destroyed and show() is not called again the chain schedules
\* no further callback.
C19_SingleCallback == []C19_AtMostOnePending /\ C19_ChainStops

(***************************************************************************)
(* The user-management list view (user_management.py) over the controller  *)
(***************************************************************************)
\* the users in the table when the view opens
NumUsers == 26
\* the most status toggles, edits and failed listings in one run
MaxOps == 1
\* controller.current_user["id"]: the administrator using the view
CurrentUserId == 1
All == PyStr(<<"A","l","l">>)
\* what the search entry holds when Apply is pressed
SearchTexts == {EmptyStr, PyStr(<<" ","u","2"," ">>), PyStr(<<"z">>)}

Min(a, b) == IF a < b THEN a ELSE b
Max(a, b) == IF a > b THEN a ELSE b

\* needle in haystack
Contains(haystack, needle) ==
    \E i \in 0..(Len(haystack) - Len(needle)) :
        SubSeq(haystack, i + 1, i + Len(needle)) = needle

\* the dictionary the controller lists a row as
UserDict(db, id) ==
    [id |-> id, username |-> db[id].username, full_name |-> db[id].full_name,
     role |-> db[id].role, status |-> db[id].status]

\* controller.get_users_list: the rows matching the filters, the page of them
\* asked for, their count and the number of pages
get_users_list(db, status_filter, role_filter, search_query, page, page_size) ==
    LET matches(id) ==
            /\ status_filter = None \/ db[id].status = status_filter
            /\ role_filter = None \/ db[id].role = role_filter
            /\ \/ search_query.s = <<>>
               \/ Contains(Lower(db[id].username.s), Lower(search_query.s))
        ids == SelectSeq([i \in 1..Len(db) |-> i], matches)
        total == Len(ids)
        lo == (page - 1) * page_size + 1
        hi == Min(page * page_size, total)
    IN  [success |-> TRUE,
         users |-> [k \in 1..Max(0, hi - lo + 1) |-> UserDict(db, ids[lo + k - 1])],
         total |-> total,
         total_pages |-> Max(1, (total + page_size - 1) \div page_size)]

\* controller.get_users_list failing
GetUsersListFailure == [success |-> FALSE, message |-> "Failed to load users"]

\* controller.toggle_user_status: the table after it
toggle_user_status(db, user_id) ==
    [db EXCEPT ![user_id].status = IF @ = Active THEN Inactive ELSE Active]

\* controller.update_user without a password reset: the table after it
update_user(db, user_id, full_name, role) ==
    [db EXCEPT ![user_id].full_name = full_name, ![user_id].role = role]

\* _add_user_row: the number in the "No." column of the index-th row
display_idx(self, index) == (self.current_page - 1) * self.per_page + index

\* _update_pagination_display
update_pagination_display(self) ==
    IF self.pagination_info = NoWidget THEN self
    ELSE LET start == (self.current_page - 1) * self.per_page + 1
             end == Min(self.current_page * self.per_page, self.total_users)
         IN  [self EXCEPT
                !.pagination_info =
                    IF self.total_users > 0
                    THEN [text |-> "Showing", start |-> start, end |-> end,
                          of |-> self.total_users]
                    ELSE [text |-> "No users found"],
                !.page_label = [page |-> self.current_page, of |-> self.total_pages],
                !.prev_btn = [state |-> IF self.current_page > 1
                                        THEN "normal" ELSE "disabled"],
                !.next_btn = [state |-> IF self.current_page < self.total_pages
                                        THEN "normal" ELSE "disabled"]]

\* load_users
load_users(self, rows, total, pages) ==
    LET set == [self EXCEPT !.user_rows = rows, !.total_users = total,
                            !.total_pages = pages]
        built == IF set.table_body # None
                 THEN [set EXCEPT !.row_numbers =
                          [idx \in 1..Len(rows) |-> display_idx(set, idx)]]
                 ELSE set
    IN  update_pagination_display(built)

\* _refresh_users, given what controller.get_users_list returned
refresh_users(self, result) ==
    IF result.success
    THEN load_users(self, result.users, result.total, result.total_pages)
    ELSE self

\* what controller.get_users_list can return to the view after ops toggles,
\* edits and failures
ListResults(self, db, ops) ==
    { get_users_list(db, self.current_status_filter, self.current_role_filter,
                     self.current_search, self.current_page, self.per_page) }
    \cup (IF ops < MaxOps THEN {GetUsersListFailure} ELSE {})

\* the view after _refresh_users on self
Refreshed(self, db, ops) ==
    \E result \in ListResults(self, db, ops) :
        /\ view' = refresh_users(self, result)
        /\ vOps' = IF result.success THEN ops ELSE ops + 1

\* show(): build the widgets, then _refresh_users
Show ==
    /\ view.table_body = None
    /\ Refreshed([view EXCEPT !.table_body = [t |-> "frame"],
                              !.pagination_info = [text |-> "Loading..."],
                              !.page_label = [page |-> 1, of |-> 1],
                              !.prev_btn = [state |-> "disabled"],
                              !.next_btn = [state |-> "disabled"]],
                 users, vOps)
    /\ UNCHANGED nonViewVars

\* _apply_filters with the filter widgets as the user set them
apply_filters(status_var, role_var, search_text) ==
    Refreshed([view EXCEPT
                  !.current_status_filter = IF status_var = All THEN None
                                            ELSE status_var,
                  !.current_role_filter = IF role_var = All THEN None ELSE role_var,
                  !.current_search = PyStr(Strip(search_text.s)),
                  !.current_page = 1],
              users, vOps)

ApplyFilters ==
    /\ view.table_body # None
    /\ \E status_var \in {All, Active, Inactive}, role_var \in {All} \cup Roles,
          search_text \in SearchTexts :
           apply_filters(status_var, role_var, search_text)
    /\ UNCHANGED nonViewVars

\* _clear_filters: reset the filter widgets, then _apply_filters
ClearFilters ==
    /\ view.table_body # None
    /\ apply_filters(All, All, EmptyStr)
    /\ UNCHANGED nonViewVars

\* _prev_page, the command of the Previous button
PrevPage ==
    /\ view.table_body # None
    /\ view.prev_btn.state = "normal"
    /\ IF view.current_page > 1
       THEN Refreshed([view EXCEPT !.current_page = @ - 1], users, vOps)
       ELSE UNCHANGED viewVars
    /\ UNCHANGED nonViewVars

\* _next_page, the command of the Next button
NextPage ==
    /\ view.table_body # None
    /\ view.next_btn.state = "normal"
    /\ IF view.current_page < view.total_pages
       THEN Refreshed([view EXCEPT !.current_page = @ + 1], users, vOps)
       ELSE UNCHANGED viewVars
    /\ UNCHANGED nonViewVars

\* _refresh_users on its own (the on_save of the add dialog)
RefreshUsers ==
    /\ view.table_body # None
    /\ Refreshed(view, users, vOps)
    /\ UNCHANGED nonViewVars

\* _toggle_user_status on a row of the page, confirmed: the rows of other
\* users than the administrator carry the button
ToggleUserStatus ==
    /\ view.table_body # None
    /\ vOps < MaxOps
    /\ \E index \in 1..Len(view.user_rows) :
           LET user == view.user_rows[index]
           IN  /\ user.id # CurrentUserId
               /\ users' = toggle_user_status(users, user.id)
               /\ Refreshed(view, users', vOps + 1)
    /\ UNCHANGED <<stored, last, dom, normVars, svcVars, fnVars, menuVars>>

\* the edit dialog of a row of the page, saved: controller.update_user, then
\* on_save, which is _refresh_users
SaveEdit ==
    /\ view.table_body # None
    /\ vOps < MaxOps
    /\ \E index \in 1..Len(view.user_rows), role \in Roles :
           LET user == view.user_rows[index]
           IN  /\ users' = update_user(users, user.id,
                                       PyStr(Strip(user.full_name.s)), role)
               /\ Refreshed(view, users', vOps + 1)
    /\ UNCHANGED <<stored, last, dom, normVars, svcVars, fnVars, menuVars>>

\* the user rows the view opens on: user 1 is the administrator
ViewUser(i, status) ==
    [username |-> PyStr(<<"u">> \o Digits(i)), full_name |-> PyStr(<<"U">> \o Digits(i)),
     password |-> hash_password(Pw1, 1),
     role |-> IF i = CurrentUserId THEN Admin ELSE Engineer, status |-> status]

ViewTables ==
    { [i \in 1..NumUsers |-> ViewUser(i, Active)],
      [i \in 1..NumUsers |-> ViewUser(i, IF i = 2 THEN Inactive ELSE Active)] }

InitView ==
    /\ users \in ViewTables
    /\ stored = users
    /\ last = NoCall
    /\ dom = CHOOSE d \in InputSlices : d.salts = Salts
    /\ nArg = [value |-> None, core |-> <<>>]
    /\ nOut = Unset
    /\ nOut2 = Unset
    /\ SvcIdle
    /\ ViewIdle
    /\ FnIdle
    /\ MenuIdle

NextView ==
    \/ Show
    \/ ApplyFilters
    \/ ClearFilters
    \/ PrevPage
    \/ NextPage
    \/ RefreshUsers
    \/ ToggleUserStatus
    \/ SaveEdit

SpecView == InitView /\ [][NextView]_vars

(***************************************************************************)
(* Claims about user_crud.py, checked under Spec                           *)
(***************************************************************************)
AllPasswords == Passwords \cup {EmptyStr}
HashingOps == {"create_user", "register_engineer", "admin_update_user",
               "engineer_update_self"}

\* C1: in every state reachable by create_user, register_engineer,
\* admin_update_user, engineer_update_self and deactivate_user, the status of
\* every stored user is exactly "Active" or "Inactive".
C1_StatusCanonical ==
    \A u \in DOMAIN users : users[u].status \in {Active, Inactive}

\* admin_update_user has stored a status it was given in another spelling
C1_Witness ==
    /\ last.op = "admin_update_user"
    /\ last.ret # NoUser
    /\ last.status = PyStr(<<"n","o">>)
    /\ users[last.uid].status = Inactive

\* C3: after create_user, register_engineer, admin_update_user or
\* engineer_update_self has hashed the password p for a user, the stored
\* password verifies against p and against no other password; in particular a
\* previous password other than p no longer verifies.
C3_PasswordRoundTrip ==
    [][ (last'.op \in HashingOps /\ last'.ret # NoUser /\ last'.password # None) =>
          /\ \A q \in AllPasswords :
                verify_password(q, users'[last'.uid].password) <=> (q = last'.password)
          /\ \A q \in AllPasswords :
                (/\ last'.uid \in DOMAIN users
                 /\ verify_password(q, users[last'.uid].password)
                 /\ q # last'.password)
                => ~verify_password(q, users'[last'.uid].password) ]_vars

\* an update has replaced a password by another one, under another salt
C3_Witness ==
    /\ last.op \in {"admin_update_user", "engineer_update_self"}
    /\ last.password = Pw2
    /\ users[last.uid].password.salt = 2
    /\ verify_password(Pw2, users[last.uid].password)
    /\ ~verify_password(Pw1, users[last.uid].password)

\* what login_user returned, against the row get_user_by_username gave it
C4_LoginOutcome ==
    LET found == get_user_by_username(users, last.username)
        u == last.uid
    IN  /\ (found = {}) <=> (u = NoUser)
        /\ u # NoUser => u \in found
        /\ (last.ret # NoUser) <=>
               (/\ u # NoUser
                /\ users[u].status = Active
                /\ verify_password(last.password, users[u].password))
        /\ last.ret # NoUser => (last.ret = u /\ last.msg = "Login successful")
        /\ last.ret = NoUser =>
               last.msg = (IF u = NoUser THEN "User not found"
                           ELSE IF users[u].status # Active THEN "Account inactive"
                           ELSE "Invalid password")

\* C4: login_user returns a user, with "Login successful", iff a user with
\* that username exists (the row get_user_by_username returns), its status is
\* "Active" and the password verifies against its hash; otherwise it returns
\* None with the first failing check in the order "User not found", "Account
\* inactive", "Invalid password"; and it never modifies a user record.
C4_Login ==
    [][ last'.op = "login_user" => (users' = users /\ C4_LoginOutcome') ]_vars

\* a login that succeeded
C4_Witness ==
    /\ last.op = "login_user"
    /\ last.ret # NoUser
    /\ last.msg = "Login successful"

\* C5: deactivate_user removes no row and changes only the status of its
\* user, to "Inactive"; a login that reads an inactive user fails with
\* "Account inactive" whatever the password; and an inactive user becomes
\* active again only by an admin_update_user call on it whose status
\* normalizes to "Active".
C5_SoftDelete ==
    [][ /\ last'.op = "deactivate_user" =>
              /\ Len(users') = Len(users)
              /\ last'.ret = NoUser => users' = users
              /\ last'.ret # NoUser =>
                     users' = [users EXCEPT ![last'.uid].status = Inactive]
        /\ (/\ last'.op = "login_user"
            /\ last'.uid # NoUser
            /\ users'[last'.uid].status = Inactive)
           => (last'.ret = NoUser /\ last'.msg = "Account inactive")
        /\ \A u \in DOMAIN users :
              (users[u].status = Inactive /\ users'[u].status # Inactive) =>
                  /\ last'.op = "admin_update_user"
                  /\ last'.uid = u
                  /\ normalize_user_status(last'.status) = Active ]_vars

\* a deactivated user is refused although the password is the right one
C5_Witness ==
    /\ last.op = "login_user"
    /\ last.uid # NoUser
    /\ users[last.uid].status = Inactive
    /\ verify_password(last.password, users[last.uid].password)
    /\ last.msg = "Account inactive"
\* C17: every user created through register_engineer has role "Engineer" and
\* status "Active" whatever the arguments, and every user created through
\* create_user starts with status "Active" and a stored password that is the
\* hash of, and never equal to, the plain password supplied.
C17_Registration ==
    (last.op \in {"create_user", "register_engineer"}) =>
        /\ last.ret = last.uid
        /\ last.uid = Len(users)
        /\ users[last.uid].status = Active
        /\ users[last.uid].password # last.password
        /\ \E salt \in Salts :
               users[last.uid].password = hash_password(last.password, salt)
        /\ verify_password(last.password, users[last.uid].password)
        /\ last.op = "register_engineer" => users[last.uid].role = Engineer

\* an engineer registered after an administrator was created
C17_Witness ==
    /\ last.op = "register_engineer"
    /\ last.uid = 2
    /\ users[1].role = Admin
    /\ users[2].role = Engineer
    /\ users[2].status = Active
    /\ users[2].password = hash_password(Pw1, 1)

\* C20: admin_update_user of an existing user with a status that does not
\* normalize raises ValueError and leaves every field of the user as it was
\* before the call, in the session's object and so in any later commit.
C20_UpdateAllOrNothing ==
    [][(/\ last'.op = "admin_update_user"
        /\ last'.uid \in DOMAIN users
        /\ last'.status # Absent
        /\ normalize_user_status(last'.status) = None)
          => (last'.raised /\ last'.msg = "ValueError" /\ users' = users)]_vars

\* a step of admin_update_user, engineer_update_self or deactivate_user
UpdateStep == last'.op \in {"admin_update_user", "engineer_update_self", "deactivate_user"}

\* with no such user the call returns None, does not commit and changes no row
C21_AbsentUserNoEffect ==
    [][(UpdateStep /\ last'.uid \notin DOMAIN users)
          => (/\ last'.ret = NoUser
              /\ ~last'.raised
              /\ ~last'.commit
              /\ users' = users
              /\ stored' = stored)]_vars

\* with such a user the session's other rows keep their values
C21_SessionFrame ==
    [][(UpdateStep /\ last'.uid \in DOMAIN users)
          => (/\ DOMAIN users' = DOMAIN users
              /\ \A other \in DOMAIN users \ {last'.uid} : users'[other] = users[other])]_vars

\* with such a user the database's other rows keep their values
C21_StoredFrame ==
    [][(UpdateStep /\ last'.uid \in DOMAIN users)
          => (/\ DOMAIN stored' = DOMAIN stored
              /\ \A other \in DOMAIN stored \ {last'.uid} : stored'[other] = stored[other])]_vars

\* C21: admin_update_user, engineer_update_self and deactivate_user with a
\* user_id that matches no user return None, do not commit and leave every
\* user unchanged; with an existing user_id they modify that user only and
\* leave all other users unchanged.
C21_UpdateFrame == C21_AbsentUserNoEffect /\ C21_SessionFrame /\ C21_StoredFrame

(***************************************************************************)
(* Claims about admin_analytics_service.py, checked under SpecSvc          *)
(***************************************************************************)
\* the permission check or a later step of the call raised
SvcStepRaised ==
    \/ check_admin_permission(aReq.current_user) # NoExc
    \/ \E i \in 1..Len(aCalls) : aCalls[i].raised

\* C6: none of the four operations lets an exception through to its caller:
\* when the permission check or a CRUD call raises, the operation returns a
\* dictionary with "success": False and a "message", and a dictionary with
\* "success": True is returned only when no step raised.
C6_NoExceptionEscapes ==
    aReq # NoReq =>
        /\ aExc = NoExc
        /\ "success" \in DOMAIN aResp
        /\ SvcStepRaised => (aResp.success = FALSE /\ "message" \in DOMAIN aResp)
        /\ aResp.success = TRUE => ~SvcStepRaised

\* a CRUD call of an admin's request raised and a failure dictionary came back
C6_Witness ==
    /\ aReq # NoReq
    /\ check_admin_permission(aReq.current_user) = NoExc
    /\ Len(aCalls) = 2
    /\ aCalls[2].raised
    /\ aCalls[2].crud
    /\ aExc = NoExc
    /\ aResp.success = FALSE

ErrorTypes == {"unauthorized", "validation", "system_error"}

\* C7: every failure response ("success": False) of an admin analytics
\* operation carries an "error_type" of the taxonomy unauthorized /
\* validation / system_error, the responses for a user or a work that does
\* not exist included.
C7_FailureHasErrorType ==
    (aReq # NoReq /\ aExc = NoExc /\ aResp.success = FALSE) =>
        /\ "error_type" \in DOMAIN aResp
        /\ aResp.error_type \in ErrorTypes

\* C8: the permission check comes first: for a current_user whose role is not
\* exactly "Admin" (a missing role included) no CRUD function is invoked and
\* the response is the unauthorized failure, without a "data" key, whatever
\* the database holds.
C8_AdminOnly ==
    (/\ aReq # NoReq
     /\ aReq.current_user # None
     /\ DictGet(aReq.current_user, "role") # Admin)
    => /\ aCalls = <<>>
       /\ aExc = NoExc
       /\ "data" \notin DOMAIN aResp
       /\ aResp = [success |-> FALSE,
                   message |-> "Analytics features are only available to administrators",
                   error_type |-> "unauthorized"]

\* a session dict without a role asked for the team comparison over a
\* non-empty users table
C8_Witness ==
    /\ aReq # NoReq
    /\ aReq.op = "get_team_comparison"
    /\ aReq.current_user = [username |-> Bob]
    /\ users # <<>>
    /\ aResp.error_type = "unauthorized"
\* C11: no retry: within one call of an admin analytics operation each CRUD
\* query function is invoked at most once, and once a CRUD call raised no
\* further CRUD call is made before the failure response is returned.
C11_NoRetry ==
    /\ \A i, j \in 1..Len(aCalls) :
           (aCalls[i].crud /\ aCalls[j].crud /\ aCalls[i].fn = aCalls[j].fn) => i = j
    /\ \A i \in 1..Len(aCalls) :
           (aCalls[i].crud /\ aCalls[i].raised) =>
               /\ \A j \in (i + 1)..Len(aCalls) : ~aCalls[j].crud
               /\ aExc = NoExc
               /\ aResp.success = FALSE

\* get_productivity_insights whose first query raised: the second was not made
C11_Witness ==
    /\ aReq # NoReq
    /\ aReq.op = "get_productivity_insights"
    /\ Len(aCalls) = 1
    /\ aCalls[1].fn = "get_hourly_productivity"
    /\ aCalls[1].raised
    /\ aResp.success = FALSE

\* the total of a list of numbers, added from its end
RECURSIVE Total(_)
Total(list) ==
    IF list = <<>> THEN 0
    ELSE Total(SubSeq(list, 1, Len(list) - 1)) + list[Len(list)]

\* the permission check passed and no query raised
SvcQueriesSucceeded ==
    /\ aReq.current_user # None
    /\ DictGet(aReq.current_user, "role") = Admin
    /\ aCalls # <<>>
    /\ \A i \in 1..Len(aCalls) : ~aCalls[i].raised

\* the summary of get_team_comparison agrees with its data; the mean is in
\* hundredths, within half a hundredth of the exact mean
TeamSummaryConsistent ==
    LET data == aResp.data
        summary == aResp.summary
        times == [i \in 1..Len(data) |->
                     IF data[i].avg_time_per_equipment_minutes > 0
                     THEN data[i].avg_time_per_equipment_minutes ELSE 0]
        n == Cardinality({i \in 1..Len(data) :
                              data[i].avg_time_per_equipment_minutes > 0})
        d == summary.team_avg_time_per_equipment * n - 100 * Total(times)
    IN  /\ summary.total_engineers = Len(data)
        /\ summary.total_team_actions =
               Total([i \in 1..Len(data) |-> data[i].total_actions])
        /\ summary.total_equipment_extracted =
               Total([i \in 1..Len(data) |-> data[i].equipment_extracted])
        /\ n = 0 => summary.team_avg_time_per_equipment = 0
        /\ n > 0 => (-n <= 2 * d /\ 2 * d <= n)

\* the peak hours and insights of get_productivity_insights
InsightsConsistent ==
    LET data == aResp.data
    IN  /\ data.hourly_productivity = <<>> => DOMAIN data.peak_hours = {}
        /\ data.daily_activity = <<>> => data.insights.avg_actions_per_day = 0
        /\ data.hourly_productivity # <<>> =>
               data.peak_hours.most_productive_count >=
                   data.peak_hours.least_productive_count

\* C22: whenever the queries succeed get_team_comparison and
\* get_productivity_insights succeed too (no division by zero), for every
\* data including the empty list; the team summary counts the entries, sums
\* the actions and the equipment and averages only the positive times, 0
\* when there is none; the insights have empty peak_hours and 0 actions per
\* day for empty data and most_productive_count >= least_productive_count
\* otherwise.
C22_SummaryConsistent ==
    /\ (aReq.op = "get_team_comparison" /\ SvcQueriesSucceeded) =>
           (aExc = NoExc /\ aResp.success = TRUE /\ TeamSummaryConsistent)
    /\ (aReq.op = "get_productivity_insights" /\ SvcQueriesSucceeded) =>
           (aExc = NoExc /\ aResp.success = TRUE /\ InsightsConsistent)

\* a team of two, one of them without a time: the mean is the other's time
C22_Witness ==
    /\ aReq.op = "get_team_comparison"
    /\ SvcQueriesSucceeded
    /\ Len(aResp.data) = 2
    /\ aResp.data[1].avg_time_per_equipment_minutes = 0
    /\ aResp.data[2].avg_time_per_equipment_minutes = 2
    /\ aResp.summary.team_avg_time_per_equipment = 200

(***************************************************************************)
(* Claims about user_management.py, checked under SpecView                 *)
(***************************************************************************)
\* C9: in the user-management list view 1 <= current_page <= total_pages in
\* every state reachable by _apply_filters, _clear_filters, _prev_page,
\* _next_page and _refresh_users, the refreshes after a status toggle or an
\* edit that left fewer users matching the filters included.
C9_PageInRange ==
    /\ 1 <= view.current_page
    /\ view.current_page <= view.total_pages

\* C10: whenever total_users > 0 the label shows start..end with
\* start = (current_page-1)*per_page + 1 and
\* end = min(current_page*per_page, total_users), and
\* 1 <= start <= end <= total_users; the number of the k-th row of the page is
\* (current_page-1)*per_page + k and lies in start..end; Previous is enabled
\* iff current_page > 1 and Next iff current_page < total_pages.
C10_PaginationArithmetic ==
    view.pagination_info # NoWidget =>
        LET start == (view.current_page - 1) * view.per_page + 1
            end == Min(view.current_page * view.per_page, view.total_users)
        IN  /\ view.total_users > 0 =>
                   /\ view.pagination_info = [text |-> "Showing", start |-> start,
                                              end |-> end, of |-> view.total_users]
                   /\ 1 <= start
                   /\ start <= end
                   /\ end <= view.total_users
            /\ \A k \in 1..Len(view.row_numbers) :
                   /\ view.row_numbers[k] = (view.current_page - 1) * view.per_page + k
                   /\ start <= view.row_numbers[k]
                   /\ view.row_numbers[k] <= end
            /\ view.prev_btn.state = "normal" <=> view.current_page > 1
            /\ view.next_btn.state = "normal" <=> view.current_page < view.total_pages
====
